---- MODULE Spec2Model ----
(***************************************************************************)
(* Model of src/backend/routers/announcements.py: the announcement router  *)
(* (list-active, list-all, create, update, delete) over the announcement   *)
(* collection, with the teacher lookup that guards the privileged calls.   *)
(*                                                                         *)
(* Python values:                                                          *)
(*   None / an omitted Optional parameter  ->  <<>>                        *)
(*   a supplied Optional[str] s            ->  <<s>>                       *)
(*   a datetime                            ->  <<d>>, d = whole days since *)
(*                                             2024-01-01T00:00            *)
(*   a dict                                ->  a function on its keys      *)
(*   an ObjectId                           ->  its allocation number       *)
(***************************************************************************)
EXTENDS Integers, Sequences, FiniteSets, Bags, TLC

\* Bounds of the model.
MaxCreates == 2      \* ObjectIds the announcement collection hands out
MaxNow == 1          \* last instant the clock reaches (days since 2024-01-01)
MaxInFlight == 2     \* concurrent requests between validation and store call

VARIABLES store,     \* announcements_collection: ObjectId -> document
          nextId,    \* the next ObjectId insert_one assigns
          now,       \* datetime.utcnow()
          pending,   \* concurrent requests: the bag of those validated, store call not yet made
          deleted,   \* concurrent requests: ids whose delete returned 200
          issued     \* concurrent requests: ids create returned, in order

vars == <<store, nextId, now, pending, deleted, issued>>

None == <<>>
Some(x) == <<x>>

\* dict.get(key, default)
Get(d, key, default) == IF key \in DOMAIN d THEN d[key] ELSE default

(***************************************************************************)
(* External collaborators                                                  *)
(***************************************************************************)

\* teachers_collection: one record with a username field, one without.
teachers_collection ==
    { [_id |-> "t.alice", username |-> "alice"],
      [_id |-> "t.bob"] }

\* teachers_collection.find_one({"_id": username})
find_one_teacher(username) ==
    IF \E t \in teachers_collection : t._id = username
    THEN Some(CHOOSE t \in teachers_collection : t._id = username)
    ELSE None

\* datetime.fromisoformat on the strings the requests carry; <<>> is ValueError.
fromisoformat(s) ==
    IF s = "2024-01-02T00:00" THEN Some(1)
    ELSE IF s = "2099-01-01T00:00" THEN Some(27394)
    ELSE None

\* str(ObjectId) of the ids the collection hands out.
OidHex == << "65a000000000000000000001", "65a000000000000000000002",
             "65a000000000000000000003", "65a000000000000000000004" >>

\* str(oid)
str(oid) == OidHex[oid]

\* ObjectId(ann_id); <<>> is InvalidId.
ObjectId(ann_id) ==
    IF \E k \in DOMAIN OidHex : OidHex[k] = ann_id
    THEN Some(CHOOSE k \in DOMAIN OidHex : OidHex[k] = ann_id)
    ELSE None

(***************************************************************************)
(* Request inputs                                                          *)
(***************************************************************************)

TeacherArgs == { None, Some(""), Some("ghost"), Some("t.alice"), Some("t.bob") }
IdArgs == { "not-an-id" } \cup { OidHex[k] : k \in 1..MaxCreates }
TimeStrings == { "", "not-a-date", "2024-01-02T00:00", "2099-01-01T00:00" }
OptTimeArgs == { None } \cup { Some(s) : s \in TimeStrings }
CreateMessages == { "", "Exam tomorrow" }
UpdateMessages == { None, Some(""), Some("Room change") }

(***************************************************************************)
(* Responses                                                               *)
(***************************************************************************)

HTTPException(status_code, detail) ==
    [status |-> status_code, body |-> detail]

Ok(body) == [status |-> 200, body |-> body]

\* _require_teacher: the exception raised, or Ok(teacher record).
_require_teacher(username) ==
    IF username = None \/ username[1] = ""
    THEN HTTPException(401, "Authentication required for this action")
    ELSE IF find_one_teacher(username[1]) = None
    THEN HTTPException(401, "Invalid teacher credentials")
    ELSE Ok(find_one_teacher(username[1])[1])

(***************************************************************************)
(* Queries                                                                 *)
(***************************************************************************)

\* Variant of ActiveQuery: "$gte" in place of "$gt" on expires_at.
ActiveQuery_gte(doc, t) ==
    /\ "expires_at" \in DOMAIN doc
    /\ doc["expires_at"] # None
    /\ doc["expires_at"][1] >= t
    /\ \/ /\ "starts_at" \in DOMAIN doc
          /\ doc["starts_at"] # None
          /\ doc["starts_at"][1] <= t
       \/ /\ "starts_at" \in DOMAIN doc
          /\ doc["starts_at"] = None
       \/ "starts_at" \notin DOMAIN doc

\* {"expires_at": {"$gt": now}, "$or": [{"starts_at": {"$lte": now}},
\*   {"starts_at": None}, {"starts_at": {"$exists": False}}]}
\* A comparison operator matches only a field holding a date.
ActiveQuery(doc, t) ==
    /\ "expires_at" \in DOMAIN doc
    /\ doc["expires_at"] # None
    /\ doc["expires_at"][1] > t
    /\ \/ /\ "starts_at" \in DOMAIN doc
          /\ doc["starts_at"] # None
          /\ doc["starts_at"][1] <= t
       \/ /\ "starts_at" \in DOMAIN doc
          /\ doc["starts_at"] = None
       \/ "starts_at" \notin DOMAIN doc

\* Sort key of expires_at: a missing or null field sorts before every date.
SortKey(doc) ==
    IF Get(doc, "expires_at", None) = None THEN -1 ELSE doc["expires_at"][1]

\* cursor.sort("expires_at", 1): every order of the ids that is ascending in
\* expires_at (the order among equal keys is the store's choice).
SortedCursors(st, ids) ==
    { c \in [1..Cardinality(ids) -> ids] :
        /\ \A i, j \in DOMAIN c : i # j => c[i] # c[j]
        /\ \A i, j \in DOMAIN c : i < j => SortKey(st[c[i]]) <= SortKey(st[c[j]]) }

\* The response item built from one document.
Item(oid, doc) ==
    [ id |-> str(oid),
      message |-> Get(doc, "message", None),
      starts_at |-> Get(doc, "starts_at", None),
      expires_at |-> Get(doc, "expires_at", None),
      created_by |-> Get(doc, "created_by", None) ]

Results(st, c) == [ i \in DOMAIN c |-> Item(c[i], st[c[i]]) ]

\* get_active_announcements: the responses the call can return at time t.
get_active_announcements(st, t) ==
    { Ok(Results(st, c)) :
        c \in SortedCursors(st, { x \in DOMAIN st : ActiveQuery(st[x], t) }) }

\* get_all_announcements
get_all_announcements(st, teacher_username) ==
    IF _require_teacher(teacher_username).status # 200
    THEN { _require_teacher(teacher_username) }
    ELSE { Ok(Results(st, c)) : c \in SortedCursors(st, DOMAIN st) }

(***************************************************************************)
(* Store calls on announcements_collection (each one atomic)               *)
(***************************************************************************)

\* insert_one(doc): the collection assigns the next ObjectId.
insert_one(st, nid, doc) ==
    [ store |-> [ x \in DOMAIN st \cup {nid} |-> IF x = nid THEN doc ELSE st[x] ],
      inserted_id |-> nid ]

\* Variant of update_one: replace_one, the document becomes the update.
update_one_replace(st, oid, update) ==
    IF oid \in DOMAIN st
    THEN [ store |-> [ st EXCEPT ![oid] = update ], matched_count |-> 1 ]
    ELSE [ store |-> st, matched_count |-> 0 ]

\* Variant of update_one: upsert=True.
update_one_upsert(st, oid, update) ==
    [ store |-> [ x \in DOMAIN st \cup {oid} |->
                    IF x # oid THEN st[x]
                    ELSE [ k \in (IF oid \in DOMAIN st THEN DOMAIN st[oid] ELSE {})
                                   \cup DOMAIN update |->
                             IF k \in DOMAIN update THEN update[k] ELSE st[oid][k] ] ],
      matched_count |-> 1 ]

\* update_one({"_id": oid}, {"$set": update}), no upsert.
update_one(st, oid, update) ==
    IF oid \in DOMAIN st
    THEN [ store |-> [ st EXCEPT ![oid] =
                         [ k \in DOMAIN @ \cup DOMAIN update |->
                             IF k \in DOMAIN update THEN update[k] ELSE @[k] ] ],
           matched_count |-> 1 ]
    ELSE [ store |-> st, matched_count |-> 0 ]

\* delete_one({"_id": oid})
delete_one(st, oid) ==
    IF oid \in DOMAIN st
    THEN [ store |-> [ x \in DOMAIN st \ {oid} |-> st[x] ], deleted_count |-> 1 ]
    ELSE [ store |-> st, deleted_count |-> 0 ]

(***************************************************************************)
(* create_announcement                                                     *)
(***************************************************************************)

\* `if starts_at:` is false for None and for "".
StartsGiven(starts_at) == starts_at # None /\ starts_at[1] # ""

\* Variant of CreateDoc: created_by is the teacher's _id.
CreateDoc_id_author(message, expires_at, starts_at, teacher, t) ==
    [ message |-> message,
      starts_at |-> IF StartsGiven(starts_at) THEN fromisoformat(starts_at[1]) ELSE None,
      expires_at |-> fromisoformat(expires_at),
      created_by |-> Get(teacher, "_id", None),
      created_at |-> Some(t) ]

\* The document of lines 86-92.
CreateDoc(message, expires_at, starts_at, teacher, t) ==
    [ message |-> message,
      starts_at |-> IF StartsGiven(starts_at) THEN fromisoformat(starts_at[1]) ELSE None,
      expires_at |-> fromisoformat(expires_at),
      created_by |-> Get(teacher, "username", Get(teacher, "_id", None)),
      created_at |-> Some(t) ]

\* Lines 69-92: the exception raised, or Ok(the document to insert).
create_prepare(message, expires_at, starts_at, teacher_username, t) ==
    LET auth == _require_teacher(teacher_username) IN
    IF auth.status # 200 THEN auth
    ELSE IF message = "" \/ expires_at = ""
    THEN HTTPException(400, "Message and expires_at are required")
    ELSE IF fromisoformat(expires_at) = None
    THEN HTTPException(400, "Invalid expires_at format. Use ISO datetime format (e.g. YYYY-MM-DDTHH:MM)")
    ELSE IF StartsGiven(starts_at) /\ fromisoformat(starts_at[1]) = None
    THEN HTTPException(400, "Invalid starts_at format. Use ISO datetime format (e.g. YYYY-MM-DDTHH:MM)")
    ELSE Ok(CreateDoc(message, expires_at, starts_at, auth.body, t))

\* Lines 94-95 on a prepared document.
create_commit(st, nid, doc) ==
    LET r == insert_one(st, nid, doc) IN
    [ resp |-> Ok([ id |-> str(r.inserted_id), message |-> doc["message"] ]),
      store |-> r.store ]

create_announcement(st, nid, t, message, expires_at, starts_at, teacher_username) ==
    LET p == create_prepare(message, expires_at, starts_at, teacher_username, t) IN
    IF p.status # 200 THEN [ resp |-> p, store |-> st ]
    ELSE create_commit(st, nid, p.body)

(***************************************************************************)
(* update_announcement                                                     *)
(***************************************************************************)

EmptyDict == [ k \in {} |-> None ]

\* Variant of UpdateDict: `if starts_at:` in place of `if starts_at is not None:`.
UpdateDict_truthy(message, expires_at, starts_at) ==
    (IF message # None THEN "message" :> message[1] ELSE EmptyDict)
    @@ (IF expires_at # None THEN "expires_at" :> fromisoformat(expires_at[1]) ELSE EmptyDict)
    @@ (IF StartsGiven(starts_at)
        THEN "starts_at" :> fromisoformat(starts_at[1])
        ELSE EmptyDict)

\* Lines 108-123: the `update` dict, when every supplied timestamp parses.
UpdateDict(message, expires_at, starts_at) ==
    (IF message # None THEN "message" :> message[1] ELSE EmptyDict)
    @@ (IF expires_at # None THEN "expires_at" :> fromisoformat(expires_at[1]) ELSE EmptyDict)
    @@ (IF starts_at # None
        THEN "starts_at" :> (IF starts_at[1] = "" THEN None ELSE fromisoformat(starts_at[1]))
        ELSE EmptyDict)

\* Variant of update_prepare: the id is parsed before the teacher is checked.
update_prepare_id_first(ann_id, message, expires_at, starts_at, teacher_username) ==
    LET auth == _require_teacher(teacher_username) IN
    IF ObjectId(ann_id) = None
    THEN HTTPException(400, "Invalid announcement id")
    ELSE IF auth.status # 200 THEN auth
    ELSE IF expires_at # None /\ fromisoformat(expires_at[1]) = None
    THEN HTTPException(400, "Invalid expires_at format")
    ELSE IF starts_at # None /\ starts_at[1] # "" /\ fromisoformat(starts_at[1]) = None
    THEN HTTPException(400, "Invalid starts_at format")
    ELSE IF DOMAIN UpdateDict(message, expires_at, starts_at) = {}
    THEN HTTPException(400, "No fields to update")
    ELSE Ok([ oid |-> ObjectId(ann_id)[1],
              update |-> UpdateDict(message, expires_at, starts_at) ])

\* Variant of update_prepare: expires_at = "" clears the field, as starts_at = "" does.
update_prepare_clear_expires(ann_id, message, expires_at, starts_at, teacher_username) ==
    LET auth == _require_teacher(teacher_username) IN
    IF auth.status # 200 THEN auth
    ELSE IF ObjectId(ann_id) = None
    THEN HTTPException(400, "Invalid announcement id")
    ELSE IF expires_at # None /\ expires_at[1] # "" /\ fromisoformat(expires_at[1]) = None
    THEN HTTPException(400, "Invalid expires_at format")
    ELSE IF starts_at # None /\ starts_at[1] # "" /\ fromisoformat(starts_at[1]) = None
    THEN HTTPException(400, "Invalid starts_at format")
    ELSE IF DOMAIN UpdateDict(message, expires_at, starts_at) = {}
    THEN HTTPException(400, "No fields to update")
    ELSE Ok([ oid |-> ObjectId(ann_id)[1],
              update |-> UpdateDict(message, expires_at, starts_at) ])

\* Lines 101-126: the exception raised, or Ok of the store call to make.
update_prepare(ann_id, message, expires_at, starts_at, teacher_username) ==
    LET auth == _require_teacher(teacher_username) IN
    IF auth.status # 200 THEN auth
    ELSE IF ObjectId(ann_id) = None
    THEN HTTPException(400, "Invalid announcement id")
    ELSE IF expires_at # None /\ fromisoformat(expires_at[1]) = None
    THEN HTTPException(400, "Invalid expires_at format")
    ELSE IF starts_at # None /\ starts_at[1] # "" /\ fromisoformat(starts_at[1]) = None
    THEN HTTPException(400, "Invalid starts_at format")
    ELSE IF DOMAIN UpdateDict(message, expires_at, starts_at) = {}
    THEN HTTPException(400, "No fields to update")
    ELSE Ok([ oid |-> ObjectId(ann_id)[1],
              update |-> UpdateDict(message, expires_at, starts_at) ])

\* Lines 128-132 on a prepared update.
update_commit(st, ann_id, oid, update) ==
    LET r == update_one(st, oid, update) IN
    IF r.matched_count = 0
    THEN [ resp |-> HTTPException(404, "Announcement not found"), store |-> r.store ]
    ELSE [ resp |-> Ok([ id |-> ann_id, updated |-> TRUE ]), store |-> r.store ]

\* Variant of update_announcement: each field is written as soon as it is parsed,
\* so the fields before an unparseable starts_at are stored.
update_announcement_eager(st, ann_id, message, expires_at, starts_at, teacher_username) ==
    LET p == update_prepare(ann_id, message, expires_at, starts_at, teacher_username) IN
    IF p.status = 200 THEN update_commit(st, ann_id, p.body.oid, p.body.update)
    ELSE IF p.status = 400 /\ p.body = "Invalid starts_at format"
    THEN [ resp |-> p,
           store |-> update_one(st, ObjectId(ann_id)[1],
                                UpdateDict(message, expires_at, None)).store ]
    ELSE [ resp |-> p, store |-> st ]

update_announcement(st, ann_id, message, expires_at, starts_at, teacher_username) ==
    LET p == update_prepare(ann_id, message, expires_at, starts_at, teacher_username) IN
    IF p.status # 200 THEN [ resp |-> p, store |-> st ]
    ELSE update_commit(st, ann_id, p.body.oid, p.body.update)

(***************************************************************************)
(* delete_announcement                                                     *)
(***************************************************************************)

\* Lines 138-143: the exception raised, or Ok(oid).
delete_prepare(ann_id, teacher_username) ==
    LET auth == _require_teacher(teacher_username) IN
    IF auth.status # 200 THEN auth
    ELSE IF ObjectId(ann_id) = None
    THEN HTTPException(400, "Invalid announcement id")
    ELSE Ok(ObjectId(ann_id)[1])

\* Variant of delete_commit: deleted_count is not looked at.
delete_commit_unchecked(st, ann_id, oid) ==
    [ resp |-> Ok([ id |-> ann_id, deleted |-> TRUE ]), store |-> delete_one(st, oid).store ]

\* Lines 145-149 on a parsed id.
delete_commit(st, ann_id, oid) ==
    LET r == delete_one(st, oid) IN
    IF r.deleted_count = 0
    THEN [ resp |-> HTTPException(404, "Announcement not found"), store |-> r.store ]
    ELSE [ resp |-> Ok([ id |-> ann_id, deleted |-> TRUE ]), store |-> r.store ]

delete_announcement(st, ann_id, teacher_username) ==
    LET p == delete_prepare(ann_id, teacher_username) IN
    IF p.status # 200 THEN [ resp |-> p, store |-> st ]
    ELSE delete_commit(st, ann_id, p.body)

(***************************************************************************)
(* The service, one request at a time. A handler is a function of the      *)
(* store, the clock and the request; it yields the response and the store  *)
(* it leaves. The response goes to the caller and is not kept.             *)
(***************************************************************************)

Init ==
    /\ store = EmptyDict
    /\ nextId = 1
    /\ now = 0
    /\ pending = EmptyBag
    /\ deleted = {}
    /\ issued = <<>>

\* The clock is read (line 29) no later than the query runs (line 39).
GetActive ==
    /\ \E t \in 0..now : \E r \in get_active_announcements(store, t) : r.status = 200
    /\ UNCHANGED vars

GetAll ==
    /\ \E u \in TeacherArgs : \E r \in get_all_announcements(store, u) :
         r.status \in {200, 401}
    /\ UNCHANGED vars

\* The step is the request's insert_one (line 94) landing, or its raise. The
\* clock was read for created_at (line 91) at an instant t no later than that:
\* nothing holds the clock between the two lines.
Create ==
    /\ \E t \in 0..now, m \in CreateMessages, e \in TimeStrings, s \in OptTimeArgs,
          u \in TeacherArgs :
         LET r == create_announcement(store, nextId, t, m, e, s, u) IN
         /\ r.resp.status = 200 => nextId <= MaxCreates
         /\ store' = r.store
         /\ nextId' = IF r.resp.status = 200 THEN nextId + 1 ELSE nextId
    /\ UNCHANGED <<now, pending, deleted, issued>>

Update ==
    /\ \E a \in IdArgs, m \in UpdateMessages, e \in OptTimeArgs, s \in OptTimeArgs,
          u \in TeacherArgs :
         store' = update_announcement(store, a, m, e, s, u).store
    /\ UNCHANGED <<nextId, now, pending, deleted, issued>>

Delete ==
    /\ \E a \in IdArgs, u \in TeacherArgs :
         store' = delete_announcement(store, a, u).store
    /\ UNCHANGED <<nextId, now, pending, deleted, issued>>

\* The clock advances.
Tick ==
    /\ now < MaxNow
    /\ now' = now + 1
    /\ UNCHANGED <<store, nextId, pending, deleted, issued>>

Next == GetActive \/ GetAll \/ Create \/ Update \/ Delete \/ Tick

Spec == Init /\ [][Next]_vars

(***************************************************************************)
(* Vocabulary of the claims                                                *)
(***************************************************************************)

Fields == { "message", "starts_at", "expires_at", "created_by", "created_at" }

\* The caller names no teacher, or one the teacher store does not hold.
NoTeacher(u) ==
    u = None \/ u[1] = "" \/ ~ \E t \in teachers_collection : t._id = u[1]

\* A well-formed store identifier.
WellFormed(a) == \E k \in DOMAIN OidHex : OidHex[k] = a

\* "Active" as the specification defines it.
IsActive(doc, t) ==
    /\ doc["expires_at"][1] > t
    /\ doc["starts_at"] = None \/ doc["starts_at"][1] <= t

\* The ids a list response shows.
ShownIds(r) == { r.body[i].id : i \in DOMAIN r.body }

\* Timestamp strings that parse.
Parseable == { s \in TimeStrings : fromisoformat(s) # None }

\* C1: whatever the store holds and whatever the time t, list-active succeeds and
\* returns exactly the stored announcements with expires_at > t and starts_at
\* null or <= t, each once, shaped from its document, in ascending expires_at.
C1_ListActiveExact ==
    \A t \in 0..MaxNow :
    /\ get_active_announcements(store, t) # {}
    /\ \A r \in get_active_announcements(store, t) :
         /\ r.status = 200
         /\ ShownIds(r) = { str(x) : x \in { y \in DOMAIN store : IsActive(store[y], t) } }
         /\ \A i, j \in DOMAIN r.body : i # j => r.body[i].id # r.body[j].id
         /\ \A i, j \in DOMAIN r.body :
              i < j => r.body[i].expires_at[1] <= r.body[j].expires_at[1]
         /\ \A i \in DOMAIN r.body : \E x \in DOMAIN store :
              r.body[i] = [ id |-> str(x),
                            message |-> store[x]["message"],
                            starts_at |-> store[x]["starts_at"],
                            expires_at |-> store[x]["expires_at"],
                            created_by |-> store[x]["created_by"] ]

\* C1 witness: at day 1 the store holds an announcement that expired at that very
\* instant and one that started at that very instant.
C1_Witness ==
    /\ now = 1
    /\ \E x, y \in DOMAIN store :
         /\ store[x]["expires_at"] = Some(1)
         /\ store[y]["starts_at"] = Some(1)
         /\ store[y]["expires_at"] = Some(27394)
         /\ \E r \in get_active_announcements(store, now) : ShownIds(r) = { str(y) }

\* C2: with no teacher identifier, an empty one, or one the teacher store does not
\* hold, list-all, create, update and delete answer 401 whatever else is passed.
C2_Unauthenticated ==
    \A u \in TeacherArgs : NoTeacher(u) =>
        /\ get_all_announcements(store, u) # {}
        /\ \A r \in get_all_announcements(store, u) : r.status = 401
        /\ \A t \in 0..now, m \in CreateMessages, e \in TimeStrings, s \in OptTimeArgs :
             create_announcement(store, nextId, t, m, e, s, u).resp.status = 401
        /\ \A a \in IdArgs, m \in UpdateMessages, e \in OptTimeArgs, s \in OptTimeArgs :
             update_announcement(store, a, m, e, s, u).resp.status = 401
        /\ \A a \in IdArgs : delete_announcement(store, a, u).resp.status = 401

\* C2 witness: a stored announcement whose update and delete a teacher may make
\* and an unknown caller gets 401 for, as for a malformed id and an empty update.
C2_Witness ==
    \E x \in DOMAIN store :
        /\ update_announcement(store, str(x), Some("Room change"), None, None,
                               Some("t.alice")).resp.status = 200
        /\ update_announcement(store, str(x), Some("Room change"), None, None,
                               Some("ghost")).resp.status = 401
        /\ update_announcement(store, "not-an-id", None, Some("not-a-date"), None,
                               None).resp.status = 401
        /\ delete_announcement(store, str(x), Some("")).resp.status = 401
        /\ delete_announcement(store, str(x), Some("t.bob")).resp.status = 200

\* C3: every stored announcement has an expires_at that is a timestamp, and an
\* authorized update with an empty or unparseable expires_at is answered 400.
C3_ExpiresAtValid ==
    /\ \A x \in DOMAIN store :
         /\ "expires_at" \in DOMAIN store[x]
         /\ store[x]["expires_at"] # None
         /\ store[x]["expires_at"][1] \in Nat
    /\ \A a \in IdArgs, m \in UpdateMessages, s \in OptTimeArgs, u \in TeacherArgs :
         \A e \in { Some(""), Some("not-a-date") } :
            (~ NoTeacher(u) /\ WellFormed(a)) =>
               update_announcement(store, a, m, e, s, u).resp.status = 400

\* C3 witness: an announcement was deleted and another one updated since.
C3_Witness ==
    /\ nextId - 1 > Cardinality(DOMAIN store)
    /\ \E x \in DOMAIN store :
         /\ store[x]["message"] = "Room change"
         /\ store[x]["expires_at"] = Some(1)

\* C4: every stored announcement has a non-empty message.
C4_MessageNonEmpty ==
    \A x \in DOMAIN store : store[x]["message"] # ""

\* C5: a successful update targets a stored announcement, keeps the set of ids,
\* leaves every other announcement as it was, and in the target keeps each field
\* not supplied, created_by and created_at.
C5_UpdateFrame ==
    \A a \in IdArgs, m \in UpdateMessages, e \in OptTimeArgs, s \in OptTimeArgs,
       u \in TeacherArgs :
        LET r == update_announcement(store, a, m, e, s, u) IN
        r.resp.status = 200 =>
            /\ WellFormed(a)
            /\ DOMAIN r.store = DOMAIN store
            /\ \E x \in DOMAIN store :
                 /\ str(x) = a
                 /\ r.resp.body.id = a
                 /\ \A y \in DOMAIN store \ {x} : r.store[y] = store[y]
                 /\ DOMAIN r.store[x] = DOMAIN store[x]
                 /\ m = None => r.store[x]["message"] = store[x]["message"]
                 /\ e = None => r.store[x]["expires_at"] = store[x]["expires_at"]
                 /\ s = None => r.store[x]["starts_at"] = store[x]["starts_at"]
                 /\ r.store[x]["created_by"] = store[x]["created_by"]
                 /\ r.store[x]["created_at"] = store[x]["created_at"]

\* C5 witness: two announcements, one with its message updated and one untouched,
\* and a further update of the first that supplies expires_at alone.
C5_Witness ==
    \E x, y \in DOMAIN store :
        /\ x # y
        /\ store[x]["message"] = "Room change"
        /\ store[y]["message"] = "Exam tomorrow"
        /\ store[x]["expires_at"] = Some(1)
        /\ update_announcement(store, str(x), None, Some("2099-01-01T00:00"), None,
                               Some("t.alice")).store[x]["expires_at"] = Some(27394)

\* C6: for an authorized teacher and a well-formed id, delete answers 404 and
\* changes nothing when the id is not stored; when it is stored, delete answers
\* 200, removes that announcement alone, list-all no longer shows it, and a
\* second delete of the id answers 404.
C6_Delete ==
    \A a \in IdArgs, u \in TeacherArgs :
        (~ NoTeacher(u) /\ WellFormed(a)) =>
            LET r == delete_announcement(store, a, u) IN
            IF \E x \in DOMAIN store : str(x) = a
            THEN /\ r.resp.status = 200
                 /\ r.resp.body = [ id |-> a, deleted |-> TRUE ]
                 /\ \E x \in DOMAIN store :
                      /\ str(x) = a
                      /\ DOMAIN r.store = DOMAIN store \ {x}
                 /\ \A y \in DOMAIN r.store : r.store[y] = store[y]
                 /\ \A l \in get_all_announcements(r.store, u) :
                      /\ l.status = 200
                      /\ a \notin ShownIds(l)
                      /\ ShownIds(l) = { str(y) : y \in DOMAIN store } \ {a}
                 /\ delete_announcement(r.store, a, u).resp.status = 404
                 /\ delete_announcement(r.store, a, u).store = r.store
            ELSE /\ r.resp.status = 404
                 /\ r.store = store

\* C6 witness: of two announcements created, the first was deleted and the second
\* is still stored.
C6_Witness ==
    /\ nextId = 3
    /\ DOMAIN store = {2}
    /\ delete_announcement(store, str(1), Some("t.alice")).resp.status = 404
    /\ delete_announcement(store, str(2), Some("t.alice")).resp.status = 200

\* C7: a create, update or delete that answers an error leaves the store as it
\* found it.
C7_AllOrNothing ==
    /\ \A t \in 0..now, m \in CreateMessages, e \in TimeStrings, s \in OptTimeArgs,
          u \in TeacherArgs :
         LET r == create_announcement(store, nextId, t, m, e, s, u) IN
         /\ r.resp.status \in {200, 400, 401}
         /\ r.resp.status # 200 => r.store = store
    /\ \A a \in IdArgs, m \in UpdateMessages, e \in OptTimeArgs, s \in OptTimeArgs,
          u \in TeacherArgs :
         LET r == update_announcement(store, a, m, e, s, u) IN
         /\ r.resp.status \in {200, 400, 401, 404}
         /\ r.resp.status # 200 => r.store = store
    /\ \A a \in IdArgs, u \in TeacherArgs :
         LET r == delete_announcement(store, a, u) IN
         /\ r.resp.status \in {200, 400, 401, 404}
         /\ r.resp.status # 200 => r.store = store

\* C7 witness: a stored announcement for which an update with a valid message and
\* an unparseable starts_at is answered 400, as is one with a valid expires_at and
\* an unparseable starts_at, and an update of a deleted id is answered 404.
C7_Witness ==
    /\ 1 \notin DOMAIN store
    /\ \E x \in DOMAIN store :
         /\ store[x]["message"] = "Exam tomorrow"
         /\ store[x]["expires_at"] = Some(1)
         /\ update_announcement(store, str(x), Some("Room change"), None,
                                Some("not-a-date"), Some("t.alice")).resp.status = 400
         /\ update_announcement(store, str(x), None, Some("2099-01-01T00:00"),
                                Some("not-a-date"), Some("t.alice")).resp.status = 400
         /\ update_announcement(store, str(1), Some("Room change"), None, None,
                                Some("t.alice")).resp.status = 404

\* The store after the authorized update of x that supplies starts_at = "".
Cleared(x, m, e, u) == update_announcement(store, str(x), m, e, Some(""), u)

\* C8, in a state: an authorized update of a stored announcement with
\* starts_at = "" is never rejected for its starts_at: it answers 200, unless an
\* expires_at sent with it does not parse (400, "Invalid expires_at format").
\* When it answers 200 the announcement's starts_at is null, list-all shows it
\* null, and list-active at any time t shows the announcement, with starts_at
\* null, exactly when its expires_at > t.
C8_ClearedNow ==
    \A x \in DOMAIN store, m \in UpdateMessages, e \in OptTimeArgs, u \in TeacherArgs :
        ~ NoTeacher(u) =>
            LET r == Cleared(x, m, e, u) IN
            /\ IF e = None \/ e[1] \in Parseable
               THEN /\ r.resp.status = 200
                    /\ r.resp.body = [ id |-> str(x), updated |-> TRUE ]
               ELSE /\ r.resp.status = 400
                    /\ r.resp.body = "Invalid expires_at format"
            /\ r.resp.status = 200 =>
                 /\ r.store[x]["starts_at"] = None
                 /\ \A l \in get_all_announcements(r.store, u) :
                      \E i \in DOMAIN l.body :
                         l.body[i].id = str(x) /\ l.body[i].starts_at = None
                 /\ \A t \in 0..MaxNow : \A l \in get_active_announcements(r.store, t) :
                      /\ str(x) \in ShownIds(l) <=> r.store[x]["expires_at"][1] > t
                      /\ \A i \in DOMAIN l.body :
                           l.body[i].id = str(x) => l.body[i].starts_at = None

\* C8, in a step: a stored announcement whose starts_at is null gets a starts_at
\* only by a successful update of it that supplies a non-empty starts_at.
C8_StaysCleared ==
    \A x \in DOMAIN store \cap DOMAIN store' :
        (store[x]["starts_at"] = None /\ store'[x]["starts_at"] # None) =>
            \E m \in UpdateMessages, e \in OptTimeArgs, s \in OptTimeArgs,
               u \in TeacherArgs :
                /\ s # None /\ s # Some("")
                /\ update_announcement(store, str(x), m, e, s, u).resp.status = 200
                /\ update_announcement(store, str(x), m, e, s, u).store = store'

\* C8: in every state an authorized update of a stored announcement with
\* starts_at = "" clears starts_at without parsing it and the announcement is
\* then active exactly while its expires_at is ahead (C8_ClearedNow), and in every
\* step a cleared starts_at stays null until an update sets it (C8_StaysCleared).
C8_ClearStartsAt == [] C8_ClearedNow /\ [][C8_StaysCleared]_vars

\* C8 witness: an announcement that had a future starts_at and was not active is
\* stored with its starts_at cleared and is active.
C8_Witness ==
    \E x \in DOMAIN store :
        /\ store[x]["starts_at"] = None
        /\ store[x]["created_at"] = Some(0)
        /\ now = 1
        /\ store[x]["message"] = "Room change"
        /\ IsActive(store[x], now)
        /\ \E y \in DOMAIN store :
             /\ y # x
             /\ store[y]["starts_at"] = Some(27394)
             /\ ~ IsActive(store[y], now)
             /\ IsActive(Cleared(y, None, None, Some("t.bob")).store[y], now)

\* The created_by a create by teacher u records.
Author(u) ==
    LET t == CHOOSE t \in teachers_collection : t._id = u[1] IN
    IF "username" \in DOMAIN t THEN t.username ELSE t._id

\* C9: a create by an authorized teacher with a non-empty message, an expires_at
\* that parses to a time after now and no starts_at answers 200 with
\* {id, message}, whenever before now it read the clock; a list-active at now and
\* a list-all on the store it leaves both show an item with that id, that
\* message, starts_at null and the teacher's username (or, for a record without
\* one, the teacher's identifier) as created_by.
C9_CreateThenListed ==
    \A t \in 0..now, m \in CreateMessages, e \in Parseable, u \in TeacherArgs :
        (~ NoTeacher(u) /\ m # "" /\ fromisoformat(e)[1] > now) =>
            LET r == create_announcement(store, nextId, t, m, e, None, u) IN
            /\ r.resp.status = 200
            /\ DOMAIN r.resp.body = { "id", "message" }
            /\ r.resp.body.message = m
            /\ \A y \in DOMAIN store : r.resp.body.id # str(y)
            /\ \A l \in get_active_announcements(r.store, now)
                        \cup get_all_announcements(r.store, u) :
                 /\ l.status = 200
                 /\ \E i \in DOMAIN l.body :
                      /\ l.body[i].id = r.resp.body.id
                      /\ l.body[i].message = m
                      /\ l.body[i].starts_at = None
                      /\ l.body[i].expires_at = fromisoformat(e)
                      /\ l.body[i].created_by = Author(u)

\* C9 witness: at day 1 the announcement just created by the teacher without a
\* username field is stored under that teacher's identifier and is active, next
\* to one created by the teacher with a username.
C9_Witness ==
    /\ now = 1
    /\ \E x, y \in DOMAIN store :
         /\ store[x]["created_by"] = "t.bob"
         /\ store[x]["created_at"] = Some(1)
         /\ store[x]["starts_at"] = None
         /\ store[x]["message"] = "Exam tomorrow"
         /\ IsActive(store[x], now)
         /\ store[y]["created_by"] = "alice"

(***************************************************************************)
(* The service under concurrent requests. A request is validated when it   *)
(* is received and makes its one call on the announcement collection       *)
(* later; the calls of different requests interleave, each one atomic.     *)
(***************************************************************************)

ConcTeachers == { Some("ghost"), Some("t.alice") }
ConcExpires == { "not-a-date", "2099-01-01T00:00" }
ConcMessages == { None, Some("Room change") }
ConcStarts == { None, Some("") }

\* Creates received and not yet inserted.
PendingInserts ==
    BagCardinality([ q \in { x \in BagToSet(pending) : x.op = "insert_one" } |->
                       pending[q] ])

\* A request past validation joins the waiting ones; one that raised does not.
Wait(p, q) ==
    /\ BagCardinality(pending) < MaxInFlight
    /\ pending' = IF p.status = 200 THEN pending (+) SetToBag({q}) ELSE pending

\* A create is received; past validation it waits for its insert_one.
ReceiveCreate ==
    /\ nextId + PendingInserts <= MaxCreates
    /\ \E m \in CreateMessages, e \in ConcExpires, u \in ConcTeachers :
         LET p == create_prepare(m, e, None, u, now) IN
         Wait(p, [ op |-> "insert_one", doc |-> p.body ])
    /\ UNCHANGED <<store, nextId, now, deleted, issued>>

\* An update is received; past validation it waits for its update_one.
ReceiveUpdate ==
    /\ \E a \in IdArgs, m \in ConcMessages, s \in ConcStarts, u \in ConcTeachers :
         LET p == update_prepare(a, m, None, s, u) IN
         Wait(p, [ op |-> "update_one", ann_id |-> a,
                   oid |-> p.body.oid, update |-> p.body.update ])
    /\ UNCHANGED <<store, nextId, now, deleted, issued>>

\* A delete is received; past validation it waits for its delete_one.
ReceiveDelete ==
    /\ \E a \in IdArgs, u \in ConcTeachers :
         LET p == delete_prepare(a, u) IN
         Wait(p, [ op |-> "delete_one", ann_id |-> a, oid |-> p.body ])
    /\ UNCHANGED <<store, nextId, now, deleted, issued>>

\* The insert_one of a waiting create, and its response.
CallInsert ==
    /\ \E q \in BagToSet(pending) :
         /\ q.op = "insert_one"
         /\ LET r == create_commit(store, nextId, q.doc) IN
            /\ store' = r.store
            /\ nextId' = nextId + 1
            /\ issued' = Append(issued, r.resp.body.id)
         /\ pending' = pending (-) SetToBag({q})
    /\ UNCHANGED <<now, deleted>>

\* The update_one of a waiting update, and its response.
CallUpdate ==
    /\ \E q \in BagToSet(pending) :
         /\ q.op = "update_one"
         /\ store' = update_commit(store, q.ann_id, q.oid, q.update).store
         /\ pending' = pending (-) SetToBag({q})
    /\ UNCHANGED <<nextId, now, deleted, issued>>

\* The delete_one of a waiting delete, and its response.
CallDelete ==
    /\ \E q \in BagToSet(pending) :
         /\ q.op = "delete_one"
         /\ LET r == delete_commit(store, q.ann_id, q.oid) IN
            /\ store' = r.store
            /\ deleted' = IF r.resp.status = 200 THEN deleted \cup { q.oid } ELSE deleted
         /\ pending' = pending (-) SetToBag({q})
    /\ UNCHANGED <<nextId, now, issued>>

ConcNext ==
    \/ ReceiveCreate
    \/ ReceiveUpdate
    \/ ReceiveDelete
    \/ CallInsert
    \/ CallUpdate
    \/ CallDelete
    \/ Tick

ConcSpec == Init /\ [][ConcNext]_vars

\* C10: under any interleaving of the store calls, an id whose delete answered
\* 200 is not in the store; every stored document has all its fields; an update
\* waiting on an id that is no longer stored answers 404 and writes nothing, and
\* one waiting on a stored id answers 200 and keeps the set of ids; the ids the
\* creates returned are pairwise different.
C10_Interleaving ==
    /\ deleted \cap DOMAIN store = {}
    /\ \A x \in DOMAIN store : DOMAIN store[x] = Fields
    /\ \A i, j \in DOMAIN issued : i # j => issued[i] # issued[j]
    /\ \A q \in BagToSet(pending) :
         q.op = "update_one" =>
            LET r == update_commit(store, q.ann_id, q.oid, q.update) IN
            IF q.oid \in DOMAIN store
            THEN r.resp.status = 200 /\ DOMAIN r.store = DOMAIN store
            ELSE r.resp.status = 404 /\ r.store = store

\* C10 witness: two creates have returned, the delete of the first id has
\* answered 200, and an update of that id, validated earlier, is still waiting
\* while another request waits too.
C10_Witness ==
    /\ Len(issued) = 2
    /\ deleted = {1}
    /\ BagCardinality(pending) = 2
    /\ \E q \in BagToSet(pending) : q.op = "update_one" /\ q.oid = 1

====
